---- MODULE Spec2Model ----
(***************************************************************************)
(* Attendance bot (src/index.js, second program, lines 846-1587): the      *)
(* session state machine of handleAttendance, the in-memory mirror         *)
(* activeSessions, the Mongo collections active_sessions and               *)
(* attendance_events, start-up (loadActiveSessions) and the personal       *)
(* reports sent after a check-out.                                         *)
(*                                                                         *)
(* Instants are integer clock ticks.  A JavaScript Date, an ISO string, a  *)
(* number and a string id are kept apart by a tag, so that the             *)
(* conversions of the code (new Date(..), toISOString(), String(..)) are   *)
(* conversions in the model too.                                           *)
(*                                                                         *)
(* The handler is cut at its awaits: one action per storage operation,     *)
(* with a failing twin where the driver can throw.  grammY's bot.start()   *)
(* hands the updates to the middleware one at a time, so one invocation is *)
(* in flight at a time.  Replies (ctx.reply) are recorded in h.replies and *)
(* are taken to be delivered; REQUIRE_MENTION has its default (false), so  *)
(* isBotMentioned is true; the local backup log file of logAttendance      *)
(* swallows its own errors and is left out; of an event and a session the  *)
(* display fields (label, name, username, chat_title, message_id, via) are *)
(* left out.                                                               *)
(***************************************************************************)
EXTENDS Integers, Sequences, FiniteSets, TLC

\* Bounds of the model.
MaxTime == 2
MaxSignals == 2
MaxRestarts == 1
\* Longest event log an aggregation run starts from.
MaxAggEvents == 2
\* Days over which the clock of a calendar run starts, and the largest offset
\* of a zone from UTC, in ticks.
MaxDays == 8
MaxOffset == 1
\* Clock ticks per calendar day and days per calendar month.
DayLen == 2
MonthDays == 2

\* ctx.from.id of the senders; NoUser is a missing (falsy) ctx.from?.id.
Users == {1, 2}
NoUser == 0
Senders == Users \cup {NoUser}
\* ctx.chat: two group chats and a private chat.
Groups == {"g1", "g2"}
PrivateChats == {"p"}
Chats == Groups \cup PrivateChats

attendanceCodes == {"1", "0", "wc", "mb", "f", "l", "h"}
breakCodes == {"wc", "mb", "f"}

\* Tagged values.
Undefined == [k |-> "undefined", t |-> 0]
ISO(t) == [k |-> "iso", t |-> t]
DateOf(t) == [k |-> "date", t |-> t]
Num(n) == [k |-> "num", t |-> n]
\* new Date(v) of an ISO string or of a Date
NewDate(v) == DateOf(v.t)
toISOString(d) == ISO(d.t)
\* String(id) of a numeric id (of NoUser: the string "undefined")
StringOf(id) == [k |-> "str", t |-> id]
\* Number.isFinite
isFinite(v) == v.k = "num"

\* JavaScript Map
EmptyMap == [x \in {} |-> Undefined]
MapHas(m, key) == key \in DOMAIN m
MapGet(m, key) == IF key \in DOMAIN m THEN m[key] ELSE Undefined
MapSet(m, key, v) == [x \in DOMAIN m \cup {key} |-> IF x = key THEN v ELSE m[x]]
MapDelete(m, key) == [x \in DOMAIN m \ {key} |-> m[x]]

RemoveAt(s, i) == [j \in 1..(Len(s) - 1) |-> IF j < i THEN s[j] ELSE s[j + 1]]

VARIABLES
    now,             \* the wall clock read by new Date()
    tz,              \* [conf, mach]: offset of TIMEZONE and of the machine's zone
    activeSessions,  \* the in-memory mirror: Map uid -> session
    sessions,        \* collection active_sessions: sequence of documents
    events,          \* collection attendance_events: sequence of documents
    h,               \* the invocation of handleAttendance in flight, or the last one:
                     \* its inputs, its position pc, the state it started from (pre),
                     \* the storage faults it met, its replies, and whether it threw;
                     \* gen and seq number the process run and the signal, seen
                     \* is the set of clock values during the invocation
    last,            \* per sender, the summary of the sender's previous invocation
    signals,         \* number of signals received
    restarts,        \* number of process restarts
    loadOk           \* every loadActiveSessions so far succeeded

vars == <<now, tz, activeSessions, sessions, events, h, last, signals, restarts, loadOk>>

----------------------------------------------------------------------------
\* Session store (Mongo collection active_sessions)

HasMatch(s, uid) == \E i \in 1..Len(s) : s[i].user_id = uid
FirstMatch(s, uid) ==
    CHOOSE i \in 1..Len(s) : s[i].user_id = uid /\ \A j \in 1..(i - 1) : s[j].user_id # uid
LastMatch(s, uid) ==
    CHOOSE i \in 1..Len(s) : s[i].user_id = uid /\ \A j \in (i + 1)..Len(s) : s[j].user_id # uid

\* variant: insertOne in place of the upsert
upsertActiveSession_insert(s, uid, session) ==
    Append(s, [user_id |-> uid, type |-> session.type,
               start |-> NewDate(session.start), chat_id |-> session.chat_id])

\* variant: the filter of the update does not name the person
upsertActiveSession_anyone(s, uid, session) ==
    LET doc == [user_id |-> uid, type |-> session.type,
                start |-> NewDate(session.start), chat_id |-> session.chat_id]
    IN IF Len(s) > 0 THEN [s EXCEPT ![1] = doc] ELSE Append(s, doc)

\* sessions.updateOne({user_id: uid}, {$set: ...}, {upsert: true})
upsertActiveSession(s, uid, session) ==
    LET doc == [user_id |-> uid, type |-> session.type,
                start |-> NewDate(session.start), chat_id |-> session.chat_id]
    IN IF HasMatch(s, uid) THEN [s EXCEPT ![FirstMatch(s, uid)] = doc] ELSE Append(s, doc)

\* sessions.deleteOne({user_id: uid})
deleteActiveSession(s, uid) ==
    IF HasMatch(s, uid) THEN RemoveAt(s, FirstMatch(s, uid)) ELSE s

\* variant: the start of a loaded session is not copied
loadActiveSessions_noStart(docs) ==
    [uid \in {docs[i].user_id : i \in 1..Len(docs)} |->
        LET d == docs[LastMatch(docs, uid)]
        IN [type |-> d.type, start |-> Undefined, chat_id |-> d.chat_id]]

\* new Map(docs.map(d => [String(d.user_id), {...}])): a later document of the
\* same key replaces an earlier one
loadActiveSessions(docs) ==
    [uid \in {docs[i].user_id : i \in 1..Len(docs)} |->
        LET d == docs[LastMatch(docs, uid)]
        IN [type |-> d.type,
            start |-> IF d.start.k = "date" THEN toISOString(d.start) ELSE d.start,
            chat_id |-> d.chat_id]]

----------------------------------------------------------------------------
\* Event log (Mongo collection attendance_events)

\* variant: the collection keeps the latest document only
logAttendance_replace(evts, event) ==
    <<[event EXCEPT
        !.timestamp = NewDate(event.timestamp),
        !.start = IF event.start.k # "undefined" THEN NewDate(event.start) ELSE Undefined,
        !.end = IF event.end.k # "undefined" THEN NewDate(event.end) ELSE Undefined]>>

\* logAttendance: the document inserted for an event
logAttendance(evts, event) ==
    Append(evts, [event EXCEPT
        !.timestamp = NewDate(event.timestamp),
        !.start = IF event.start.k # "undefined" THEN NewDate(event.start) ELSE Undefined,
        !.end = IF event.end.k # "undefined" THEN NewDate(event.end) ELSE Undefined])

\* variant: the operands of the subtraction are swapped
endActiveSession_swapped(session, t) ==
    [start |-> session.start,
     end |-> toISOString(DateOf(t)),
     duration_ms |-> Num(NewDate(session.start).t - t),
     code |-> session.type]

\* variant: a negative duration is replaced by zero
endActiveSession_clamped(session, t) ==
    [start |-> session.start,
     end |-> toISOString(DateOf(t)),
     duration_ms |-> Num(IF t >= NewDate(session.start).t
                         THEN t - NewDate(session.start).t ELSE 0),
     code |-> session.type]

\* endActiveSession(session) with new Date() = t
endActiveSession(session, t) ==
    [start |-> session.start,
     end |-> toISOString(DateOf(t)),
     duration_ms |-> Num(t - NewDate(session.start).t),
     code |-> session.type]

\* the event of logBreakInterval({...closed, ctx, via})
logBreakInterval(closed, from, chat) ==
    [timestamp |-> closed.end, code |-> closed.code, start |-> closed.start,
     end |-> closed.end, duration_ms |-> closed.duration_ms,
     user_id |-> from, chat_id |-> chat]

\* the event built by handleAttendance for a code that is not a break code
attendanceEvent(timestamp, code, from, chat) ==
    [timestamp |-> timestamp, code |-> code, start |-> Undefined, end |-> Undefined,
     duration_ms |-> Undefined, user_id |-> from, chat_id |-> chat]

----------------------------------------------------------------------------
\* Clock / timezone adapter.  z = [conf, mach]: the offsets, in ticks, of the
\* configured TIMEZONE and of the zone of the machine.

\* new Date(new Date().toLocaleString("en-US", {timeZone: TIMEZONE})): the wall
\* time of TIMEZONE, parsed as a wall time of the machine's zone
nowInTimezone(t, z) == DateOf(t + z.conf - z.mach)

\* d.setHours(0, 0, 0, 0): midnight of d's day in the machine's zone
setHoursZero(d, z) == DateOf(((d.t + z.mach) \div DayLen) * DayLen - z.mach)

startOfToday(t, z) == setHoursZero(nowInTimezone(t, z), z)

\* d.setDate(1); d.setHours(0, 0, 0, 0)
startOfMonth(t, z) ==
    LET d == nowInTimezone(t, z)
        monthLen == DayLen * MonthDays
    IN DateOf(((d.t + z.mach) \div monthLen) * monthLen - z.mach)

\* d.getDay() (0 = Sunday) in the machine's zone; the day of instant 0 in UTC
\* (1 January 1970) is a Thursday
getDay(d, z) == (((d.t + z.mach) \div DayLen) + 4) % 7

\* variant: the days since Monday are added
startOfWeek_forward(t, z) ==
    LET d == nowInTimezone(t, z)
        diff == (getDay(d, z) + 6) % 7
    IN DateOf((((d.t + z.mach) \div DayLen) + diff) * DayLen - z.mach)

\* d.setDate(d.getDate() - diff); d.setHours(0, 0, 0, 0)
startOfWeek(t, z) ==
    LET d == nowInTimezone(t, z)
        diff == (getDay(d, z) + 6) % 7
    IN DateOf((((d.t + z.mach) \div DayLen) - diff) * DayLen - z.mach)

\* Intl.DateTimeFormat("en-CA", {timeZone: TIMEZONE, year, month, day}): the
\* calendar day of the instant in TIMEZONE
formatDateShort(ts, z) == [k |-> "day", t |-> (NewDate(ts).t + z.conf) \div DayLen]

----------------------------------------------------------------------------
\* Reports

\* events.find({timestamp: {$gte: since}}), Dates given back as ISO strings
fetchEventsSince(evts, since) ==
    LET Keep(d) == d.timestamp.t >= since.t
        docs == SelectSeq(evts, Keep)
    IN [i \in 1..Len(docs) |->
            [docs[i] EXCEPT
                !.timestamp = IF @.k = "date" THEN toISOString(@) ELSE @,
                !.start = IF @.k = "date" THEN toISOString(@) ELSE @,
                !.end = IF @.k = "date" THEN toISOString(@) ELSE @]]

\* .sort((a, b) => new Date(a.timestamp) - new Date(b.timestamp)), a stable sort
InsertByTimestamp(s, e) ==
    LET n == Cardinality({i \in 1..Len(s) : NewDate(s[i].timestamp).t <= NewDate(e.timestamp).t})
    IN SubSeq(s, 1, n) \o <<e>> \o SubSeq(s, n + 1, Len(s))

RECURSIVE sortByTimestamp(_)
sortByTimestamp(s) ==
    IF s = <<>> THEN <<>>
    ELSE InsertByTimestamp(sortByTimestamp(SubSeq(s, 1, Len(s) - 1)), s[Len(s)])

\* variant: the events of the person are left in the order of the log
userEventsOf_unsorted(evts, uid) ==
    LET Mine(e) == StringOf(e.user_id) = StringOf(uid)
    IN SelectSeq(evts, Mine)

\* events.filter((e) => String(e.user_id) === String(uid)).sort(...)
userEventsOf(evts, uid) ==
    LET Mine(e) == StringOf(e.user_id) = StringOf(uid)
    IN sortByTimestamp(SelectSeq(evts, Mine))

RECURSIVE sumDurations(_, _)
sumDurations(s, code) ==
    IF s = <<>> THEN 0
    ELSE sumDurations(Tail(s), code)
         + (IF Head(s).code = code /\ code \in breakCodes /\ isFinite(Head(s).duration_ms)
            THEN Head(s).duration_ms.t ELSE 0)

countCode(s, code) == Cardinality({i \in 1..Len(s) : s[i].code = code})

\* buildTodayReportForUser(uid) at clock t; Undefined stands for null
buildTodayReportForUser(evts, uid, t, z) ==
    LET userEvents == userEventsOf(fetchEventsSince(evts, startOfToday(t, z)), uid)
        IsIn(e) == e.code = "1"
        IsOut(e) == e.code = "0"
        checkIns == SelectSeq(userEvents, IsIn)
        checkOuts == SelectSeq(userEvents, IsOut)
        firstIn == IF Len(checkIns) > 0 THEN NewDate(checkIns[1].timestamp) ELSE Undefined
        lastOut == IF Len(checkOuts) > 0
                   THEN NewDate(checkOuts[Len(checkOuts)].timestamp) ELSE Undefined
    IN IF Len(userEvents) = 0 THEN Undefined
       ELSE [k |-> "report",
             firstIn |-> firstIn,
             lastOut |-> lastOut,
             workingMs |-> IF firstIn.k = "date" /\ lastOut.k = "date"
                           THEN lastOut.t - firstIn.t ELSE 0,
             counts |-> [c \in breakCodes |-> countCode(userEvents, c)],
             durations |-> [c \in breakCodes |-> sumDurations(userEvents, c)]]

\* the dates ds with every date kept once
RECURSIVE dedup(_)
dedup(ds) ==
    IF ds = <<>> THEN <<>>
    ELSE LET r == dedup(SubSeq(ds, 1, Len(ds) - 1))
             d == ds[Len(ds)]
         IN IF \E i \in 1..Len(r) : r[i] = d THEN r ELSE Append(r, d)

\* variant: a date is listed once however many events fall on it
buildMonthReportForUser_dedup(evts, uid, t, z) ==
    LET userEvents == userEventsOf(fetchEventsSince(evts, startOfMonth(t, z)), uid)
        IsH(e) == e.code = "h"
        IsL(e) == e.code = "l"
        hs == SelectSeq(userEvents, IsH)
        ls == SelectSeq(userEvents, IsL)
    IN IF Len(userEvents) = 0 THEN Undefined
       ELSE [k |-> "month",
             hospitalDates |-> dedup([i \in 1..Len(hs) |-> formatDateShort(hs[i].timestamp, z)]),
             leaveDates |-> dedup([i \in 1..Len(ls) |-> formatDateShort(ls[i].timestamp, z)])]

\* buildMonthReportForUser(uid) at clock t
buildMonthReportForUser(evts, uid, t, z) ==
    LET userEvents == userEventsOf(fetchEventsSince(evts, startOfMonth(t, z)), uid)
        IsH(e) == e.code = "h"
        IsL(e) == e.code = "l"
        hs == SelectSeq(userEvents, IsH)
        ls == SelectSeq(userEvents, IsL)
    IN IF Len(userEvents) = 0 THEN Undefined
       ELSE [k |-> "month",
             hospitalDates |-> [i \in 1..Len(hs) |-> formatDateShort(hs[i].timestamp, z)],
             leaveDates |-> [i \in 1..Len(ls) |-> formatDateShort(ls[i].timestamp, z)]]

\* event.user_id ?? event.username ?? "unknown": an event without a sender
\* has no username either
Unknown == [k |-> "unknown", t |-> 0]
userKeyOf(event) == IF event.user_id = NoUser THEN Unknown ELSE Num(event.user_id)

\* perUser is a Map: its entries, in the order the keys were first set
EntryIndex(perUser, key) ==
    IF \E i \in 1..Len(perUser) : perUser[i].key = key
    THEN CHOOSE i \in 1..Len(perUser) : perUser[i].key = key
    ELSE 0

\* summarize, the body of the loop once the entry of the key exists
tally(entry, event) ==
    [entry EXCEPT
        !.counts = IF event.code \in attendanceCodes
                   THEN [@ EXCEPT ![event.code] = @ + 1] ELSE @,
        !.durations = IF event.code \in breakCodes /\ isFinite(event.duration_ms)
                      THEN [@ EXCEPT ![event.code] = @ + event.duration_ms.t] ELSE @,
        !.last = event.timestamp]

\* summarize, the loop over the filtered events
RECURSIVE perUserOf(_, _)
perUserOf(perUser, filtered) ==
    IF filtered = <<>> THEN perUser
    ELSE LET event == Head(filtered)
             key == userKeyOf(event)
             base == IF EntryIndex(perUser, key) = 0
                     THEN Append(perUser,
                                 [key |-> key, user_id |-> event.user_id,
                                  counts |-> [c \in attendanceCodes |-> 0],
                                  durations |-> [c \in breakCodes |-> 0],
                                  last |-> event.timestamp])
                     ELSE perUser
             i == EntryIndex(base, key)
         IN perUserOf([base EXCEPT ![i] = tally(base[i], event)], Tail(filtered))

\* variant: the window is not applied
summarize_noWindow(evts, since) ==
    [total |-> Len(evts), perUser |-> perUserOf(<<>>, evts)]

\* summarize(events, since)
summarize(evts, since) ==
    LET Keep(e) == e.timestamp.k \in {"iso", "date"} /\ NewDate(e.timestamp).t >= since.t
        filtered == SelectSeq(evts, Keep)
    IN [total |-> Len(filtered), perUser |-> perUserOf(<<>>, filtered)]

----------------------------------------------------------------------------
\* The state machine

Snapshot == [activeSessions |-> activeSessions, sessions |-> sessions, events |-> events]

IdleH ==
    [pc |-> "idle", from |-> NoUser, chat |-> "p", code |-> "1", timestamp |-> Undefined,
     uid |-> Undefined, cont |-> "", closed |-> Undefined, replies |-> <<>>,
     faults |-> {}, thrown |-> FALSE, gen |-> 0, seq |-> 0, seen |-> {},
     sinceWeek |-> Undefined, fetched |-> <<>>,
     pre |-> [activeSessions |-> EmptyMap, sessions |-> <<>>, events |-> <<>>]]

\* TIMEZONE unset ("UTC") on a machine whose zone is UTC
DefaultZone == [conf |-> 0, mach |-> 0]

Init ==
    /\ now = 0
    /\ tz = DefaultZone
    /\ activeSessions = EmptyMap
    /\ sessions = <<>>
    /\ events = <<>>
    /\ h = IdleH
    /\ last = [s \in Senders |-> IdleH]
    /\ signals = 0
    /\ restarts = 0
    /\ loadOk = TRUE

\* variant: any break code sent while a break is open ends that break
dispatch_toggleAny(b, m) ==
    LET existing == MapGet(m, b.uid)
    IN IF b.code = "0"
       THEN IF b.uid # Undefined /\ MapHas(m, b.uid)
            THEN [b EXCEPT !.pc = "close", !.cont = "checkout"]
            ELSE [b EXCEPT !.pc = "log"]
       ELSE IF b.code \in breakCodes
       THEN IF b.uid = Undefined
            THEN [b EXCEPT !.pc = "done", !.replies = <<[kind |-> "no_user"]>>]
            ELSE IF existing # Undefined
            THEN [b EXCEPT !.pc = "close", !.cont = "ended"]
            ELSE [b EXCEPT !.pc = "open", !.cont = "start"]
       ELSE [b EXCEPT !.pc = "log"]

\* variant: every code that is not a break code closes the open break
dispatch_closeOnAny(b, m) ==
    LET existing == MapGet(m, b.uid)
    IN IF b.code \notin breakCodes
       THEN IF b.uid # Undefined /\ MapHas(m, b.uid)
            THEN [b EXCEPT !.pc = "close", !.cont = "checkout"]
            ELSE [b EXCEPT !.pc = "log"]
       ELSE IF b.uid = Undefined
            THEN [b EXCEPT !.pc = "done", !.replies = <<[kind |-> "no_user"]>>]
            ELSE IF existing # Undefined /\ existing.type = b.code
            THEN [b EXCEPT !.pc = "close", !.cont = "ended"]
            ELSE IF existing # Undefined /\ existing.type # b.code
            THEN [b EXCEPT !.pc = "close", !.cont = "supersede"]
            ELSE [b EXCEPT !.pc = "open", !.cont = "start"]

\* variant: a check-out with nothing open is dropped
dispatch_checkoutNoop(b, m) ==
    LET existing == MapGet(m, b.uid)
    IN IF b.code = "0"
       THEN IF b.uid # Undefined /\ MapHas(m, b.uid)
            THEN [b EXCEPT !.pc = "close", !.cont = "checkout"]
            ELSE [b EXCEPT !.pc = "done"]
       ELSE IF b.code \in breakCodes
       THEN IF b.uid = Undefined
            THEN [b EXCEPT !.pc = "done", !.replies = <<[kind |-> "no_user"]>>]
            ELSE IF existing # Undefined /\ existing.type = b.code
            THEN [b EXCEPT !.pc = "close", !.cont = "ended"]
            ELSE IF existing # Undefined /\ existing.type # b.code
            THEN [b EXCEPT !.pc = "close", !.cont = "supersede"]
            ELSE [b EXCEPT !.pc = "open", !.cont = "start"]
       ELSE [b EXCEPT !.pc = "log"]

\* variant: a different break code opens the new break over the open one
dispatch_openFirst(b, m) ==
    LET existing == MapGet(m, b.uid)
    IN IF b.code = "0"
       THEN IF b.uid # Undefined /\ MapHas(m, b.uid)
            THEN [b EXCEPT !.pc = "close", !.cont = "checkout"]
            ELSE [b EXCEPT !.pc = "log"]
       ELSE IF b.code \in breakCodes
       THEN IF b.uid = Undefined
            THEN [b EXCEPT !.pc = "done", !.replies = <<[kind |-> "no_user"]>>]
            ELSE IF existing # Undefined /\ existing.type = b.code
            THEN [b EXCEPT !.pc = "close", !.cont = "ended"]
            ELSE [b EXCEPT !.pc = "open", !.cont = "start"]
       ELSE [b EXCEPT !.pc = "log"]

\* handleAttendance up to its first await: which branch the code takes, given
\* the mirror m
dispatch(b, m) ==
    LET existing == MapGet(m, b.uid)
    IN IF b.code = "0"
       THEN IF b.uid # Undefined /\ MapHas(m, b.uid)
            THEN [b EXCEPT !.pc = "close", !.cont = "checkout"]
            ELSE [b EXCEPT !.pc = "log"]
       ELSE IF b.code \in breakCodes
       THEN IF b.uid = Undefined
            THEN [b EXCEPT !.pc = "done", !.replies = <<[kind |-> "no_user"]>>]
            ELSE IF existing # Undefined /\ existing.type = b.code
            THEN [b EXCEPT !.pc = "close", !.cont = "ended"]
            ELSE IF existing # Undefined /\ existing.type # b.code
            THEN [b EXCEPT !.pc = "close", !.cont = "supersede"]
            ELSE [b EXCEPT !.pc = "open", !.cont = "start"]
       ELSE [b EXCEPT !.pc = "log"]

\* variant: updates are handed to the handlers as they arrive, the one in
\* flight or not
pollNext_concurrent(hh) == TRUE

\* bot.start(): long polling hands the next update to its handler when the
\* handler of the update before it has settled
pollNext(hh) == hh.pc \in {"idle", "done"}

\* A signal arrives: ensureGroup, the timestamp, and the branch
HandleAttendance(from, chat, code) ==
    /\ pollNext(h)
    /\ signals < MaxSignals
    /\ signals' = signals + 1
    /\ last' = IF h.pc = "done" /\ h.chat \notin PrivateChats
               THEN [last EXCEPT ![h.from] = h] ELSE last
    /\ LET b == [IdleH EXCEPT !.from = from, !.chat = chat, !.code = code,
                              !.uid = IF from # NoUser THEN StringOf(from) ELSE Undefined,
                              !.gen = restarts, !.seq = signals + 1, !.pre = Snapshot]
       IN h' = IF chat \in PrivateChats
               THEN [IdleH EXCEPT !.pc = "done", !.chat = chat, !.gen = restarts,
                                  !.seq = signals + 1, !.pre = Snapshot,
                                  !.replies = <<[kind |-> "group_only"]>>]
               ELSE dispatch([b EXCEPT !.timestamp = toISOString(DateOf(now)),
                                       !.seen = {now}], activeSessions)
    /\ UNCHANGED <<now, tz, activeSessions, sessions, events, restarts, loadOk>>

\* closeSession, up to activeSessions.delete: the interval is logged
CloseSessionLog ==
    /\ h.pc = "close"
    /\ LET session == MapGet(activeSessions, h.uid)
           closed == endActiveSession(session, now)
       IN IF session = Undefined
          THEN /\ h' = [h EXCEPT !.pc = "closeDel"]
               /\ UNCHANGED <<events, activeSessions>>
          ELSE /\ events' = logAttendance(events, logBreakInterval(closed, h.from, h.chat))
               /\ activeSessions' = MapDelete(activeSessions, h.uid)
               /\ h' = [h EXCEPT !.pc = "closeDel", !.closed = closed]
    /\ UNCHANGED <<now, tz, sessions, last, signals, restarts, loadOk>>

\* closeSession, when logBreakInterval throws: caught, written to the console
CloseSessionLogFails ==
    /\ h.pc = "close"
    /\ MapHas(activeSessions, h.uid)
    /\ LET session == MapGet(activeSessions, h.uid)
           closed == endActiveSession(session, now)
       IN /\ activeSessions' = MapDelete(activeSessions, h.uid)
          /\ h' = [h EXCEPT !.pc = "closeDel", !.closed = closed,
                            !.faults = @ \cup {"log_interval"}]
    /\ UNCHANGED <<now, tz, sessions, events, last, signals, restarts, loadOk>>

\* formatDuration(ms): "?" for a duration that is not finite or is negative,
\* else the duration in words
QuestionMark == [k |-> "text", t |-> -1]
formatDuration(v) == IF isFinite(v) /\ v.t >= 0 THEN [k |-> "text", t |-> v.t] ELSE QuestionMark

\* variant: the check-out returns once the break is closed
afterClose_return(hh) ==
    LET duration == IF hh.closed # Undefined THEN hh.closed.duration_ms ELSE Num(0)
    IN IF hh.cont = "supersede"
       THEN [hh EXCEPT !.pc = "open",
                       !.replies = Append(@, [kind |-> "superseded",
                                              durationText |-> formatDuration(duration),
                                              code |-> IF hh.closed # Undefined
                                                       THEN hh.closed.code ELSE ""])]
       ELSE [hh EXCEPT !.pc = "done",
                       !.replies = Append(@, [kind |-> "ended",
                                              durationText |-> formatDuration(duration)])]

\* what handleAttendance does after closeSession returned
afterClose(hh) ==
    LET duration == IF hh.closed # Undefined THEN hh.closed.duration_ms ELSE Num(0)
    IN IF hh.cont = "ended"
       THEN [hh EXCEPT !.pc = "done",
                       !.replies = Append(@, [kind |-> "ended",
                                              durationText |-> formatDuration(duration)])]
       ELSE IF hh.cont = "supersede"
       THEN [hh EXCEPT !.pc = "open",
                       !.replies = Append(@, [kind |-> "superseded",
                                              durationText |-> formatDuration(duration),
                                              code |-> IF hh.closed # Undefined
                                                       THEN hh.closed.code ELSE ""])]
       ELSE [hh EXCEPT !.pc = "log"]

\* closeSession: await deleteActiveSession(uid), then back in handleAttendance
CloseSessionDelete ==
    /\ h.pc = "closeDel"
    /\ sessions' = IF h.closed # Undefined THEN deleteActiveSession(sessions, h.uid) ELSE sessions
    /\ h' = afterClose(h)
    /\ UNCHANGED <<now, tz, activeSessions, events, last, signals, restarts, loadOk>>

\* deleteActiveSession throws: the error leaves handleAttendance (bot.catch)
CloseSessionDeleteFails ==
    /\ h.pc = "closeDel"
    /\ h.closed # Undefined
    /\ h' = [h EXCEPT !.pc = "done", !.thrown = TRUE, !.faults = @ \cup {"delete"}]
    /\ UNCHANGED <<now, tz, activeSessions, sessions, events, last, signals, restarts, loadOk>>

\* the session handleAttendance puts into the mirror
newSession(hh) == [type |-> hh.code, start |-> hh.timestamp, chat_id |-> hh.chat]

\* handleAttendance: the start message and activeSessions.set
OpenSession ==
    /\ h.pc = "open"
    /\ activeSessions' = MapSet(activeSessions, h.uid, newSession(h))
    /\ h' = [h EXCEPT !.pc = "upsert",
                      !.replies = IF h.cont = "start"
                                  THEN Append(@, [kind |-> "started"]) ELSE @]
    /\ UNCHANGED <<now, tz, sessions, events, last, signals, restarts, loadOk>>

\* handleAttendance: await upsertActiveSession(uid, activeSessions.get(uid))
UpsertSession ==
    /\ h.pc = "upsert"
    /\ sessions' = upsertActiveSession(sessions, h.uid, MapGet(activeSessions, h.uid))
    /\ h' = [h EXCEPT !.pc = "done"]
    /\ UNCHANGED <<now, tz, activeSessions, events, last, signals, restarts, loadOk>>

\* upsertActiveSession throws: the error leaves handleAttendance (bot.catch)
UpsertSessionFails ==
    /\ h.pc = "upsert"
    /\ h' = [h EXCEPT !.pc = "done", !.thrown = TRUE, !.faults = @ \cup {"upsert"}]
    /\ UNCHANGED <<now, tz, activeSessions, sessions, events, last, signals, restarts, loadOk>>

\* handleAttendance: the event of an instantaneous code is logged and noted
LogEvent ==
    /\ h.pc = "log"
    /\ events' = logAttendance(events, attendanceEvent(h.timestamp, h.code, h.from, h.chat))
    /\ h' = [h EXCEPT !.pc = IF h.code = "0" THEN "report" ELSE "done",
                      !.replies = Append(@, [kind |-> "noted"])]
    /\ UNCHANGED <<now, tz, activeSessions, sessions, last, signals, restarts, loadOk>>

\* logAttendance throws: caught, "Could not log right now. Please try again."
LogEventFails ==
    /\ h.pc = "log"
    /\ h' = [h EXCEPT !.pc = "done", !.faults = @ \cup {"log"},
                      !.replies = Append(@, [kind |-> "log_failed"])]
    /\ UNCHANGED <<now, tz, activeSessions, sessions, events, last, signals, restarts, loadOk>>

\* the personal report replied after a check-out (nothing when report is null)
reportReply(evts, from, t, z) ==
    LET report == buildTodayReportForUser(evts, from, t, z)
        month == buildMonthReportForUser(evts, from, t, z)
    IN IF report = Undefined THEN <<>>
       ELSE <<[kind |-> "report", report |-> report,
               hospitalDates |-> IF month # Undefined THEN month.hospitalDates ELSE <<>>,
               leaveDates |-> IF month # Undefined THEN month.leaveDates ELSE <<>>]>>

\* handleAttendance: after check-out, send the personal daily report
SendReport ==
    /\ h.pc = "report"
    /\ h' = [h EXCEPT !.pc = "done", !.replies = @ \o reportReply(events, h.from, now, tz)]
    /\ UNCHANGED <<now, tz, activeSessions, sessions, events, last, signals, restarts, loadOk>>

\* bot.command("report") up to the await of fetchEventsSince(sinceWeek); with
\* nothing fetched the reply is "No attendance records yet."
ReportFetch(from, chat) ==
    /\ pollNext(h)
    /\ last' = IF h.pc = "done" /\ h.chat \notin PrivateChats
               THEN [last EXCEPT ![h.from] = h] ELSE last
    /\ LET sinceWeek == startOfWeek(now, tz)
           fetched == fetchEventsSince(events, sinceWeek)
           b == [IdleH EXCEPT !.from = from, !.chat = chat, !.code = "report",
                              !.gen = restarts, !.seq = signals, !.pre = Snapshot,
                              !.seen = {now}, !.sinceWeek = sinceWeek, !.fetched = fetched]
       IN h' = IF Len(fetched) = 0
               THEN [b EXCEPT !.pc = "done", !.replies = <<[kind |-> "no_records"]>>]
               ELSE [b EXCEPT !.pc = "summary"]
    /\ UNCHANGED <<now, tz, activeSessions, sessions, events, signals, restarts, loadOk>>

\* events.find throws: the command throws
ReportFetchFails(from, chat) ==
    /\ pollNext(h)
    /\ last' = IF h.pc = "done" /\ h.chat \notin PrivateChats
               THEN [last EXCEPT ![h.from] = h] ELSE last
    /\ h' = [IdleH EXCEPT !.pc = "done", !.from = from, !.chat = chat, !.code = "report",
                          !.gen = restarts, !.seq = signals, !.pre = Snapshot,
                          !.seen = {now}, !.sinceWeek = startOfWeek(now, tz),
                          !.faults = {"find"}, !.thrown = TRUE]
    /\ UNCHANGED <<now, tz, activeSessions, sessions, events, signals, restarts, loadOk>>

\* variant: the command closes the breaks it lists
ReportReply_closes ==
    /\ h.pc = "summary"
    /\ activeSessions' = EmptyMap
    /\ sessions' = <<>>
    /\ h' = [h EXCEPT !.pc = "done",
                      !.replies = <<[kind |-> "summary",
                                     sinceToday |-> startOfToday(now, tz),
                                     today |-> summarize(h.fetched, startOfToday(now, tz)),
                                     week |-> summarize(h.fetched, h.sinceWeek),
                                     active |-> activeSessions]>>]
    /\ UNCHANGED <<now, tz, events, last, signals, restarts, loadOk>>

\* bot.command("report"), the rest: the two summaries and the reply
ReportReply ==
    /\ h.pc = "summary"
    /\ h' = [h EXCEPT !.pc = "done",
                      !.replies = <<[kind |-> "summary",
                                     sinceToday |-> startOfToday(now, tz),
                                     today |-> summarize(h.fetched, startOfToday(now, tz)),
                                     week |-> summarize(h.fetched, h.sinceWeek),
                                     active |-> activeSessions]>>]
    /\ UNCHANGED <<now, tz, activeSessions, sessions, events, last, signals, restarts, loadOk>>

\* the invocation in flight has seen the clock at t
sees(hh, t) == IF hh.pc \in {"idle", "done"} THEN hh ELSE [hh EXCEPT !.seen = @ \cup {t}]

\* the wall clock advances; it is read by HandleAttendance, by closeSession
\* (endActiveSession) and by the reports, so it is stepped ahead of those only
\* (and no more once the last signal of the run has been handled)
Tick ==
    /\ now < MaxTime
    /\ h.pc \in {"close", "report", "summary"}
       \/ (h.pc \in {"idle", "done"} /\ signals < MaxSignals)
    /\ now' = now + 1
    /\ h' = sees(h, now')
    /\ UNCHANGED <<tz, activeSessions, sessions, events, last, signals, restarts, loadOk>>

\* what the history keeps of the invocation the process exit cut short
cutShort(hh) == IF hh.pc = "done" THEN hh ELSE [hh EXCEPT !.pc = "crashed"]

\* The process stops at any point and starts again: ensureDb, loadActiveSessions
Restart ==
    /\ restarts < MaxRestarts
    /\ restarts' = restarts + 1
    /\ activeSessions' = loadActiveSessions(sessions)
    /\ last' = IF h.pc # "idle" /\ h.chat \notin PrivateChats
               THEN [last EXCEPT ![h.from] = cutShort(h)] ELSE last
    /\ h' = IdleH
    /\ UNCHANGED <<now, tz, sessions, events, signals, loadOk>>

\* start-up when sessions.find throws: caught, the mirror starts empty
RestartLoadFails ==
    /\ restarts < MaxRestarts
    /\ restarts' = restarts + 1
    /\ activeSessions' = EmptyMap
    /\ loadOk' = FALSE
    /\ last' = IF h.pc # "idle" /\ h.chat \notin PrivateChats
               THEN [last EXCEPT ![h.from] = cutShort(h)] ELSE last
    /\ h' = IdleH
    /\ UNCHANGED <<now, tz, sessions, events, signals>>

Next ==
    \/ \E from \in Senders, chat \in Chats, code \in attendanceCodes :
            HandleAttendance(from, chat, code)
    \/ CloseSessionLog
    \/ CloseSessionLogFails
    \/ CloseSessionDelete
    \/ CloseSessionDeleteFails
    \/ OpenSession
    \/ UpsertSession
    \/ UpsertSessionFails
    \/ LogEvent
    \/ LogEventFails
    \/ SendReport
    \/ Tick
    \/ Restart
    \/ RestartLoadFails

Spec == Init /\ [][Next]_vars

----------------------------------------------------------------------------
\* Vocabulary of the properties

\* the invocation h has ended (returned or thrown) in a group chat
Handled == h.pc = "done" /\ h.chat \in Groups
\* no storage operation of the invocation failed
Clean(hh) == hh.faults = {}
\* the sender's open session when the invocation started
PreSession(hh) == MapGet(hh.pre.activeSessions, hh.uid)
\* the documents of a person in the session store
DocsOf(s, uid) == SelectSeq(s, LAMBDA d : d.user_id = uid)
\* the events an invocation has appended
Appended(hh) == SubSeq(events, Len(hh.pre.events) + 1, Len(events))
\* the kinds of the replies of an invocation
ReplyKinds(hh) == {hh.replies[i].kind : i \in 1..Len(hh.replies)}

\* the closed interval of a break of code c from instant t0 to instant t1
IntervalDoc(from, chat, c, t0, t1) ==
    [timestamp |-> DateOf(t1), code |-> c, start |-> DateOf(t0), end |-> DateOf(t1),
     duration_ms |-> Num(t1 - t0), user_id |-> from, chat_id |-> chat]
\* the event of an instantaneous code c at instant t
InstantDoc(from, chat, c, t) ==
    [timestamp |-> DateOf(t), code |-> c, start |-> Undefined, end |-> Undefined,
     duration_ms |-> Undefined, user_id |-> from, chat_id |-> chat]

\* the sender's previous invocation o opened a break of the code h now repeats
OpenedBefore(o) ==
    /\ Handled /\ Clean(h) /\ h.code \in breakCodes /\ h.from \in Users
    /\ o.pc = "done" /\ Clean(o) /\ o.code = h.code /\ o.chat \in Groups
    /\ ~MapHas(o.pre.activeSessions, o.uid)

\* what repeating the code must give: one closed interval from o's instant to
\* the instant read while h closes it, and no open session left
RoundTripResult(o) ==
    /\ h.closed # Undefined
    /\ h.closed.end.t \in h.seen
    /\ events = Append(h.pre.events,
                       IntervalDoc(h.from, h.chat, h.code, o.timestamp.t, h.closed.end.t))
    /\ ~MapHas(activeSessions, h.uid)
    /\ ~HasMatch(sessions, h.uid)

----------------------------------------------------------------------------
\* C1: after any sequence of signals, failures and restarts the session store
\* holds at most one open session per person, and the in-memory mirror holds
\* sessions of identified persons only, one per person.
C1_AtMostOneOpenSession ==
    /\ \A u \in Senders : Len(DocsOf(sessions, StringOf(u))) <= 1
    /\ \A i \in 1..Len(sessions) : sessions[i].user_id \in {StringOf(u) : u \in Users}
    /\ DOMAIN activeSessions \subseteq {StringOf(u) : u \in Users}

\* a person's session was superseded after a restart: put twice, one document
C1_Witness ==
    /\ Handled /\ h.cont = "supersede" /\ Clean(h) /\ restarts > 0
    /\ Len(DocsOf(sessions, h.uid)) = 1

C3_Supersession ==
    (/\ Handled /\ Clean(h) /\ h.code \in breakCodes
     /\ PreSession(h) # Undefined /\ PreSession(h).type # h.code)
        => /\ h.closed # Undefined
           /\ events = Append(h.pre.events,
                              IntervalDoc(h.from, h.chat, PreSession(h).type,
                                          PreSession(h).start.t, h.closed.end.t))
           /\ MapGet(activeSessions, h.uid)
                = [type |-> h.code, start |-> ISO(h.timestamp.t), chat_id |-> h.chat]
           /\ DocsOf(sessions, h.uid)
                = <<[user_id |-> h.uid, type |-> h.code,
                     start |-> DateOf(h.timestamp.t), chat_id |-> h.chat]>>

C3_Witness ==
    /\ Handled /\ Clean(h) /\ h.code = "mb"
    /\ PreSession(h) # Undefined /\ PreSession(h).type = "wc"
    /\ h.closed.end.t > PreSession(h).start.t

\* C4: forced close.  When a person with an open interval session sends
\* CheckOut, the closed interval event is appended first and the CheckOut event
\* right after it, and the person has no open session afterwards.
C4_ForcedClose ==
    (Handled /\ Clean(h) /\ h.code = "0" /\ PreSession(h) # Undefined)
        => /\ h.closed # Undefined
           /\ events = h.pre.events \o
                <<IntervalDoc(h.from, h.chat, PreSession(h).type,
                              PreSession(h).start.t, h.closed.end.t),
                  InstantDoc(h.from, h.chat, "0", h.timestamp.t)>>
           /\ ~MapHas(activeSessions, h.uid)
           /\ ~HasMatch(sessions, h.uid)

C4_Witness ==
    /\ Handled /\ Clean(h) /\ h.code = "0"
    /\ PreSession(h) # Undefined /\ PreSession(h).type = "mb"

C6_AppendFailureSurfaced ==
    (Handled /\ h.faults \cap {"log", "log_interval"} # {})
        => /\ h.thrown \/ "log_failed" \in ReplyKinds(h)
           /\ ReplyKinds(h) \cap {"ended", "superseded", "started", "noted"} = {}

\* C7: a signal whose session store write (put or delete) fails leaves the
\* sender's entry of the in-memory mirror as it was before the signal, and
\* the transition is not reported as done.
C7_FailedWriteKeepsMirror ==
    (Handled /\ h.faults \cap {"upsert", "delete"} # {})
        => /\ MapGet(activeSessions, h.uid) = PreSession(h)
           /\ h.thrown
           /\ ReplyKinds(h) \cap {"ended", "superseded", "started", "noted"} = {}

\* C8: when a person with an open session of interval code X sends CheckIn,
\* Leave or Medical, exactly that instantaneous event is appended and the
\* mirror and the session store are left as they were: the session stays open
\* with the same code and start.
C8_InstantKeepsSession ==
    (Handled /\ Clean(h) /\ h.code \in {"1", "l", "h"} /\ PreSession(h) # Undefined)
        => /\ events = Append(h.pre.events, InstantDoc(h.from, h.chat, h.code, h.timestamp.t))
           /\ activeSessions = h.pre.activeSessions
           /\ MapGet(activeSessions, h.uid) = PreSession(h)
           /\ sessions = h.pre.sessions

C8_Witness ==
    /\ Handled /\ Clean(h) /\ h.code = "l"
    /\ PreSession(h) # Undefined /\ PreSession(h).type = "f"
    /\ HasMatch(sessions, h.uid)

\* the sender's previous signal o was the one right before h, a CheckOut with
\* nothing open, as h is
CheckOutTwice(o) ==
    /\ Handled /\ Clean(h) /\ h.code = "0" /\ h.from \in Users /\ PreSession(h) = Undefined
    /\ o.pc = "done" /\ Clean(o) /\ o.code = "0" /\ o.chat \in Groups
    /\ PreSession(o) = Undefined
    /\ o.seq + 1 = h.seq /\ o.gen = h.gen

\* C9: CheckOut sent twice in a row by a person with nothing open appends
\* exactly two CheckOut events and changes neither the session store nor the
\* mirror.
C9_CheckOutTwice ==
    \A u \in Users :
        (h.from = u /\ CheckOutTwice(last[u]))
            => /\ events = last[u].pre.events \o
                    <<InstantDoc(u, last[u].chat, "0", last[u].timestamp.t),
                      InstantDoc(u, h.chat, "0", h.timestamp.t)>>
               /\ sessions = last[u].pre.sessions
               /\ activeSessions = last[u].pre.activeSessions

C9_Witness ==
    /\ CheckOutTwice(last[h.from])
    /\ h.timestamp.t > last[h.from].timestamp.t

\* the events of a person recorded in a group chat
EventsIn(evts, from, chat) ==
    SelectSeq(evts, LAMBDA e : e.user_id = from /\ e.chat_id = chat)

\* C10: state and aggregation are partitioned per (group, person): a signal
\* of a person in one group leaves the person's open session of another group
\* as it is, and the report computed in a group counts only breaks recorded
\* in that group and takes its first check-in from that group.
C10_SessionPerGroup ==
    (Handled /\ PreSession(h) # Undefined /\ PreSession(h).chat_id # h.chat)
        => /\ MapGet(activeSessions, h.uid) = PreSession(h)
           /\ DocsOf(sessions, h.uid) = DocsOf(h.pre.sessions, h.uid)

C10_ReportPerGroup ==
    \A i \in 1..Len(h.replies) :
        (Handled /\ h.from \in Users /\ h.replies[i].kind = "report")
            => LET report == h.replies[i].report
                   mine == EventsIn(events, h.from, h.chat)
               IN /\ \A c \in breakCodes : report.counts[c] <= countCode(mine, c)
                  /\ report.firstIn.k = "date"
                        => \E j \in 1..Len(mine) :
                                mine[j].code = "1" /\ mine[j].timestamp = report.firstIn

C10_GroupPartition == C10_SessionPerGroup /\ C10_ReportPerGroup

----------------------------------------------------------------------------
\* Serial handling of one person's signals

\* the open session of a person: the mirror's entry and the stored documents
SessionOf(m, s, u) == [mirror |-> MapGet(m, StringOf(u)), docs |-> DocsOf(s, StringOf(u))]

\* C11: the transitions of one person never interleave: while an invocation
\* is in flight no other invocation starts (only a stop of the process ends it
\* early), and a person's open session is read and written by the steps of
\* that person's one invocation only, so the signals of a person take effect
\* one after the other in the order they were taken.
C11_NoInterleaving ==
    [][/\ (~pollNext(h) /\ restarts' = restarts) => (h'.seq = h.seq /\ h'.from = h.from)
       /\ \A u \in Users :
            (SessionOf(activeSessions', sessions', u) # SessionOf(activeSessions, sessions, u)
             /\ restarts' = restarts)
            => (~pollNext(h) /\ h.from = u /\ h'.seq = h.seq)]_vars

\* a second signal of a person is between its write of the mirror and its
\* write of the store, after a first one of the same person has completed
C11_Witness ==
    /\ h.pc = "upsert" /\ h.cont = "supersede" /\ h.from \in Users
    /\ last[h.from].pc = "done" /\ last[h.from].code \in breakCodes
    /\ last[h.from].seq < h.seq

----------------------------------------------------------------------------
\* Aggregation over event logs.  The runs of AggSpec start from a log the bot
\* has written earlier: documents of logAttendance, of any senders and codes,
\* none later than the clock, in any order of insertion (the wall clock that
\* stamps them is not monotone, and the end of a forced close is read after
\* the instant of the check-out that follows it in the log).  Check-outs and
\* /report commands are then handled by the code of the bot.

\* the documents logAttendance writes with clock values up to t
LoggedDocs(t) ==
    {logAttendance(<<>>, attendanceEvent(toISOString(DateOf(t1)), c, u, "g1"))[1] :
        t1 \in 0..t, c \in attendanceCodes \ breakCodes, u \in Users}
    \cup
    {logAttendance(<<>>, logBreakInterval(
            endActiveSession([type |-> c, start |-> toISOString(DateOf(tt[1])),
                              chat_id |-> "g1"], tt[2]), u, "g1"))[1] :
        tt \in {x \in (0..t) \X (0..t) : x[1] <= x[2]}, c \in breakCodes, u \in Users}

LoggedSeqs(t) == UNION {[1..n -> LoggedDocs(t)] : n \in 0..MaxAggEvents}

AggInit ==
    /\ now \in 0..MaxTime
    /\ tz = DefaultZone
    /\ activeSessions = EmptyMap
    /\ sessions = <<>>
    /\ events \in LoggedSeqs(now)
    /\ h = IdleH
    /\ last = [s \in Senders |-> IdleH]
    /\ signals = 0
    /\ restarts = 0
    /\ loadOk = TRUE

AggNext ==
    \/ \E from \in Users : HandleAttendance(from, "g1", "0")
    \/ LogEvent
    \/ SendReport
    \/ ReportFetch(1, "g1")
    \/ ReportReply

AggSpec == AggInit /\ [][AggNext]_vars

\* a /report command has replied with its two summaries
Summarized == h.pc = "done" /\ h.code = "report" /\ ReplyKinds(h) = {"summary"}
\* the reply of the /report command
Summary == h.replies[1]

\* the positions, in the events evts, of the events of key in the window since
InWindow(evts, key, since) ==
    {i \in 1..Len(evts) : userKeyOf(evts[i]) = key /\ NewDate(evts[i].timestamp).t >= since.t}

RECURSIVE SumOf(_, _)
SumOf(f, S) == IF S = {} THEN 0 ELSE LET i == CHOOSE x \in S : TRUE IN f[i] + SumOf(f, S \ {i})

\* the keys of the persons; the summary of key in summary sm, if any
Keys == {Num(u) : u \in Users} \cup {Unknown}
EntriesOf(sm, key) == SelectSeq(sm.perUser, LAMBDA e : e.key = key)

\* the counts and durations of summary sm are those of the events evts in
\* the window since
CountsRight(sm, evts, since) ==
    /\ sm.total = Cardinality({i \in 1..Len(evts) : NewDate(evts[i].timestamp).t >= since.t})
    /\ \A key \in Keys :
        LET W == InWindow(evts, key, since)
            es == EntriesOf(sm, key)
        IN /\ Len(es) = IF W = {} THEN 0 ELSE 1
           /\ W # {} =>
                /\ \A c \in attendanceCodes :
                        es[1].counts[c] = Cardinality({i \in W : evts[i].code = c})
                /\ \A c \in breakCodes :
                        es[1].durations[c] =
                            SumOf([i \in 1..Len(evts) |-> evts[i].duration_ms.t],
                                  {i \in W : evts[i].code = c})

\* C12: in the summaries of /report the count of a person and a code is the
\* number of the person's events of that code with timestamp >= since, and
\* the duration of a break code is the sum of the durations of the person's
\* events of that code in the window; a person has an entry exactly when the
\* window holds an event of the person.
C12_SummarizeCounts ==
    Summarized =>
        /\ CountsRight(Summary.today, h.fetched, Summary.sinceToday)
        /\ CountsRight(Summary.week, h.fetched, h.sinceWeek)

\* two breaks of one person, one of the day before: the summary of the week
\* adds them up and the summary of today leaves the earlier one out
C12_Witness ==
    /\ Summarized
    /\ Summary.today.total < Summary.week.total
    /\ \E i \in 1..Len(Summary.week.perUser) :
            /\ Summary.week.perUser[i].counts["wc"] = 2
            /\ Summary.week.perUser[i].durations["wc"] = 2
    /\ \E j \in 1..Len(Summary.today.perUser) :
            /\ Summary.today.perUser[j].counts["wc"] = 1
            /\ Summary.today.perUser[j].durations["wc"] = 1

----------------------------------------------------------------------------
\* Calendar runs.  The runs of ClockSpec start with the clock anywhere in the
\* first MaxDays days, TIMEZONE and the zone of the machine being any two
\* offsets; one person then checks in and out and takes breaks in a group,
\* and /report is sent.

Offsets == (0 - MaxOffset)..MaxOffset
Zones == [conf : Offsets, mach : Offsets]

ClockInit ==
    /\ now \in 0..(MaxDays * DayLen - 1)
    /\ tz \in Zones
    /\ activeSessions = EmptyMap
    /\ sessions = <<>>
    /\ events = <<>>
    /\ h = IdleH
    /\ last = [s \in Senders |-> IdleH]
    /\ signals = 0
    /\ restarts = 0
    /\ loadOk = TRUE

ClockNext ==
    \/ \E code \in {"1", "0", "wc"} : HandleAttendance(1, "g1", code)
    \/ CloseSessionLog
    \/ CloseSessionDelete
    \/ OpenSession
    \/ UpsertSession
    \/ LogEvent
    \/ SendReport
    \/ ReportFetch(1, "g1")
    \/ ReportFetchFails(1, "g1")
    \/ ReportReply
    \/ Tick

ClockSpec == ClockInit /\ [][ClockNext]_vars

----------------------------------------------------------------------------
\* Last activity and the order of the input

\* the last activity of every entry of summary sm is the latest timestamp of
\* the person's events in the window
LastIsMax(sm, evts, since) ==
    \A i \in 1..Len(sm.perUser) :
        \A j \in InWindow(evts, sm.perUser[i].key, since) :
            NewDate(evts[j].timestamp).t <= NewDate(sm.perUser[i].last).t

\* C13: the last activity summarize returns for a person is the maximum
\* timestamp among the person's events in the window.
C13_LastActivityIsMax ==
    Summarized =>
        /\ LastIsMax(Summary.today, h.fetched, Summary.sinceToday)
        /\ LastIsMax(Summary.week, h.fetched, h.sinceWeek)


\* the orders the events evts can be given in
OrdersOf(evts) ==
    LET n == Len(evts)
        P == {f \in [1..n -> 1..n] : \A i, j \in 1..n : f[i] = f[j] => i = j}
    IN {[i \in 1..n |-> evts[f[i]]] : f \in P}

\* summarize gives each person the same entry for the events evts in any order
SameInAnyOrder(evts, since) ==
    \A p \in OrdersOf(evts) : \A key \in Keys :
        EntriesOf(summarize(p, since), key) = EntriesOf(summarize(evts, since), key)

\* C14: summarize is a reduction that does not depend on the order of its
\* input: for every permutation of the events the counts, the durations and
\* the last activity of every person are the same.
C14_OrderIndependent ==
    Summarized =>
        /\ SameInAnyOrder(h.fetched, Summary.sinceToday)
        /\ SameInAnyOrder(h.fetched, h.sinceWeek)

----------------------------------------------------------------------------
\* The personal reports sent after a check-out

\* a check-out has been handled and answered with the personal report
Reported == Handled /\ h.code = "0" /\ "report" \in ReplyKinds(h)
\* the report reply of the check-out
PersonalReport == h.replies[Len(h.replies)]

\* the positions, in the log evts, of the events of person uid of code c with
\* timestamp >= since
CodeInWindow(evts, uid, c, since) ==
    {i \in 1..Len(evts) : /\ evts[i].user_id = uid /\ evts[i].code = c
                          /\ evts[i].timestamp.t >= since.t}
TimesOf(evts, S) == {evts[i].timestamp.t : i \in S}
MinOf(S) == CHOOSE x \in S : \A y \in S : x <= y
MaxOf(S) == CHOOSE x \in S : \A y \in S : y <= x

\* report is the daily report of person uid over the log evts from since on
DailyRight(report, evts, uid, since) ==
    LET ins == TimesOf(evts, CodeInWindow(evts, uid, "1", since))
        outs == TimesOf(evts, CodeInWindow(evts, uid, "0", since))
    IN /\ report.firstIn = IF ins = {} THEN Undefined ELSE DateOf(MinOf(ins))
       /\ report.lastOut = IF outs = {} THEN Undefined ELSE DateOf(MaxOf(outs))
       /\ report.workingMs = IF ins # {} /\ outs # {} THEN MaxOf(outs) - MinOf(ins) ELSE 0
       /\ \A c \in breakCodes :
            /\ report.counts[c] = Cardinality(CodeInWindow(evts, uid, c, since))
            /\ report.durations[c] =
                    SumOf([i \in 1..Len(evts) |-> evts[i].duration_ms.t],
                          CodeInWindow(evts, uid, c, since))

\* C15: in the daily report of a person firstIn is the minimum timestamp of
\* the person's check-ins of the day, lastOut the maximum timestamp of the
\* check-outs, the working span lastOut - firstIn when both exist and zero
\* otherwise, and the break counts and durations are those of the person's
\* closed intervals of the day.
C15_DailyReport ==
    Reported => DailyRight(PersonalReport.report, events, h.from, startOfToday(now, tz))

\* the report of a person whose earliest check-in of the day is not the first
\* one in the log, with a positive working span and a break counted
C15_Witness ==
    /\ Reported
    /\ PersonalReport.report.workingMs > 0
    /\ \E i, j \in 1..Len(events) :
            /\ i < j /\ events[i].code = "1" /\ events[j].code = "1"
            /\ events[i].user_id = h.from /\ events[j].user_id = h.from
            /\ events[j].timestamp = PersonalReport.report.firstIn
            /\ events[i].timestamp.t > events[j].timestamp.t

\* the number of entries of the list of dates ds that are the day d
EntriesOn(ds, d) == Cardinality({i \in 1..Len(ds) : ds[i] = d})
\* the number of events of the set S of positions of the log evts that fall on
\* the day d of the configured zone
EventsOn(evts, S, d, z) == Cardinality({i \in S : formatDateShort(evts[i].timestamp, z) = d})
Chronological(ds) == \A i, j \in 1..Len(ds) : i <= j => ds[i].t <= ds[j].t

\* ds lists the dates of the events of code c of person uid from since on
DatesRight(ds, evts, uid, c, since, z) ==
    LET S == CodeInWindow(evts, uid, c, since)
    IN /\ Len(ds) = Cardinality(S)
       /\ Chronological(ds)
       /\ \A i \in S : EntriesOn(ds, formatDateShort(evts[i].timestamp, z))
                            = EventsOn(evts, S, formatDateShort(evts[i].timestamp, z), z)

\* C16: the monthly report lists one date for every Leave and every Medical
\* event of the person, in chronological order and without dropping a date
\* that is already listed: the entries are as many as the qualifying events.
C16_MonthlyDates ==
    Reported =>
        /\ DatesRight(PersonalReport.leaveDates, events, h.from, "l", startOfMonth(now, tz), tz)
        /\ DatesRight(PersonalReport.hospitalDates, events, h.from, "h", startOfMonth(now, tz), tz)

\* two leaves of one person on the same day are listed twice
C16_Witness ==
    /\ Reported
    /\ Len(PersonalReport.leaveDates) = 2
    /\ PersonalReport.leaveDates[1] = PersonalReport.leaveDates[2]

----------------------------------------------------------------------------
\* Calendar boundaries

\* the clock value at which the invocation h replied
RepliedAt == MaxOf(h.seen)

\* the calendar day, in the zone of offset conf, of the instant t, and the
\* instant at which the day d of that zone begins
LocalDay(t, conf) == (t + conf) \div DayLen
MidnightOf(d, conf) == DateOf(d * DayLen - conf)

\* C18: the start-of-day boundary used for filtering is the absolute instant
\* of local midnight, in the configured timezone, of the current local day,
\* whatever the offsets of the configured zone and of the machine's zone.
C18_DayBoundary ==
    Summarized => Summary.sinceToday = MidnightOf(LocalDay(RepliedAt, tz.conf), tz.conf)


\* the clock value at which the invocation h started
StartedAt == MinOf(h.seen)

\* the weekday (0 = Sunday) of the calendar day d: day 0 is a Thursday
WeekdayOf(d) == (d + 4) % 7
\* the most recent Monday at or before the day d, and the first day of the
\* month of the day d
MondayOf(d) == CHOOSE m \in (d - 6)..d : WeekdayOf(m) = 1
FirstOfMonth(d) == CHOOSE f \in (d - MonthDays + 1)..d : f % MonthDays = 0

\* C19: startOfWeek is the local midnight of the most recent Monday at or
\* before the current local date, and startOfMonth the local midnight of day
\* 1 of the current local month, on every weekday and every day of the month.
C19_WeekAndMonthBoundary ==
    /\ Summarized =>
            h.sinceWeek = MidnightOf(MondayOf(LocalDay(StartedAt, tz.conf)), tz.conf)
    /\ Reported =>
            startOfMonth(RepliedAt, tz)
                = MidnightOf(FirstOfMonth(LocalDay(RepliedAt, tz.conf)), tz.conf)


\* the events, among evts, that the summary of the day starting at since counts
CountedFrom(evts, since) ==
    {i \in 1..Len(evts) : NewDate(evts[i].timestamp).t >= since.t}

\* the /report command the sender of h sent before this one was answered with
\* the summary of an earlier day
EarlierDay(o) ==
    /\ Summarized
    /\ o.pc = "done" /\ o.code = "report" /\ ReplyKinds(o) = {"summary"}
    /\ o.replies[1].sinceToday.t < Summary.sinceToday.t

\* C17: an event whose timestamp is the instant of a day boundary is counted
\* in the window that starts at that boundary, and was not counted in the
\* window of the day before: it is in one of two adjacent days, never both.
C17_BoundaryInstant ==
    Summarized =>
        /\ \A i \in 1..Len(h.fetched) :
                NewDate(h.fetched[i].timestamp).t = Summary.sinceToday.t
                => /\ i \in CountedFrom(h.fetched, Summary.sinceToday)
                   /\ Summary.today.total >= 1
        /\ LET o == last[h.from]
           IN EarlierDay(o) =>
                \A j \in CountedFrom(o.fetched, o.replies[1].sinceToday) :
                    NewDate(o.fetched[j].timestamp).t # Summary.sinceToday.t

----------------------------------------------------------------------------
\* Signals without a sender

\* C20: a signal without a resolvable person id is rejected with no change of
\* state, whichever of the seven codes it carries: no event is appended and
\* no open session is created, changed or deleted.
C20_MissingIdentityRejected ==
    (Handled /\ h.from = NoUser /\ h.code \in attendanceCodes) =>
        /\ events = h.pre.events
        /\ sessions = h.pre.sessions
        /\ activeSessions = h.pre.activeSessions

----------------------------------------------------------------------------
\* Runs with a wall clock that is set back.  new Date() reads the wall clock
\* of the machine, which an adjustment can move to an earlier value; in
\* SkewSpec one person takes breaks and checks out in a group, /report is
\* sent, and the clock moves either way between the reads.

SetBack ==
    /\ now > 0
    /\ h.pc \in {"close", "report", "summary"}
       \/ (h.pc \in {"idle", "done"} /\ signals < MaxSignals)
    /\ now' = now - 1
    /\ h' = sees(h, now')
    /\ UNCHANGED <<tz, activeSessions, sessions, events, last, signals, restarts, loadOk>>

SkewNext ==
    \/ \E code \in {"wc", "mb", "0"} : HandleAttendance(1, "g1", code)
    \/ CloseSessionLog
    \/ CloseSessionDelete
    \/ OpenSession
    \/ UpsertSession
    \/ LogEvent
    \/ SendReport
    \/ ReportFetch(1, "g1")
    \/ ReportReply
    \/ Tick
    \/ SetBack

SkewSpec == Init /\ [][SkewNext]_vars

\* the day boundaries the clock values seen by the invocation h give
BoundariesSeen == {startOfToday(t, tz) : t \in h.seen}

\* C21: a clock that runs backwards is not an error and is not corrected:
\* the event of a session closed at or before its start carries the
\* duration end - start as it is, zero or negative, and the summaries of
\* /report and the daily report add that value as it is to the total of the
\* code.
C21_NegativeDurationKept ==
    /\ \A i \in 1..Len(events) :
            events[i].code \in breakCodes
            => events[i].duration_ms = Num(events[i].end.t - events[i].start.t)
    /\ Summarized =>
            /\ CountsRight(Summary.week, h.fetched, h.sinceWeek)
            /\ CountsRight(Summary.today, h.fetched, Summary.sinceToday)
    /\ (Reported /\ Cardinality(BoundariesSeen) = 1) =>
            \A since \in BoundariesSeen :
                DailyRight(PersonalReport.report, events, h.from, since)

\* a break closed by a check-out before its start: the event and the daily
\* report carry the negative duration
C21_Witness ==
    /\ Reported /\ Cardinality(BoundariesSeen) = 1
    /\ PersonalReport.report.durations["wc"] < 0
    /\ \E i \in 1..Len(events) :
            /\ events[i].code = "wc" /\ events[i].duration_ms.t < 0
            /\ events[i].end.t < events[i].start.t

----------------------------------------------------------------------------
\* What the caller is told of a close

\* the invocation h closed an open session and met no storage failure
ClosedOne == Handled /\ Clean(h) /\ h.from \in Users /\ h.closed # Undefined

\* the reply r names a close and carries the duration d of the closed interval
TellsClose(r, d) ==
    /\ "durationText" \in DOMAIN r
    /\ r.durationText = [k |-> "text", t |-> d.t]

\* C22: whenever a transition closes an open session (the same code again, a
\* different break code superseding it, a check-out forcing it) a reply to the
\* caller names the transition and carries the duration of the closed
\* interval.
C22_CloseOutcome ==
    ClosedOne =>
        \E i \in 1..Len(h.replies) :
            /\ TellsClose(h.replies[i], h.closed.duration_ms)
            /\ h.cont = "ended" => h.replies[i].kind = "ended"
            /\ h.cont = "supersede" => h.replies[i].kind = "superseded"

----------------------------------------------------------------------------
\* The event log only grows

IsPrefix(s, t) == Len(s) <= Len(t) /\ SubSeq(t, 1, Len(s)) = s

\* C23: the event log is append-only: every step of a signal, of a report,
\* of a restart or of a failing storage operation leaves the events written
\* before as they are and in their place.
C23_AppendOnly == [][IsPrefix(events, events')]_vars

\* an event written before a restart is followed by the event of a later
\* signal
C23_Witness ==
    /\ Handled /\ restarts >= 1 /\ h.gen >= 1
    /\ Len(h.pre.events) >= 1
    /\ Len(events) > Len(h.pre.events)
    /\ IsPrefix(h.pre.events, events)

----------------------------------------------------------------------------
\* Every break that was opened is closed in the log

\* the log evts holds the closed interval of the stored session doc of person u
ClosedInLog(evts, doc, u) ==
    \E i \in 1..Len(evts) :
        /\ evts[i].user_id = u /\ evts[i].code = doc.type
        /\ evts[i].start = doc.start /\ evts[i].end # Undefined

\* C24: every open session that was created is closed in the end, with a
\* closed event of its code and start in the event log: no break that was
\* opened leaves the session store without its closed event being logged.
C24_NoBreakLost ==
    (h.pc # "idle" /\ h.from \in Users) =>
        \A i \in 1..Len(h.pre.sessions) :
            (/\ h.pre.sessions[i].user_id = h.uid
             /\ \A j \in 1..Len(sessions) : sessions[j] # h.pre.sessions[i])
            => ClosedInLog(events, h.pre.sessions[i], h.from)

----------------------------------------------------------------------------
\* Order of the writes of the mirror and of the store

\* the session the store s holds for person u, as start-up would load it
StoredSession(s, u) == MapGet(loadActiveSessions(s), StringOf(u))

\* C25: for every mutation of a session (open, close, supersede) the write
\* to the session store comes before the update of the mirror, or with it:
\* when the mirror's entry of a person changes, the store holds the new value
\* already.
C25_StoreBeforeMirror ==
    [][\A u \in Users :
        (/\ MapGet(activeSessions', StringOf(u)) # MapGet(activeSessions, StringOf(u))
         /\ restarts' = restarts)
        => StoredSession(sessions', u) = MapGet(activeSessions', StringOf(u))]_vars

----------------------------------------------------------------------------
\* Supersession: the close is written before the open

\* the invocation hh is a break code sent while a break of another code was
\* open, and no storage operation of it has failed
Superseding(hh) ==
    /\ hh.from \in Users /\ hh.chat \in Groups /\ hh.code \in breakCodes
    /\ PreSession(hh) # Undefined /\ PreSession(hh).type # hh.code
    /\ Clean(hh)

\* the log holds the closed event of the session hh found open
ClosedEventOf(hh) ==
    \E i \in 1..Len(events) :
        /\ events[i].user_id = hh.from /\ events[i].code = PreSession(hh).type
        /\ events[i].start = NewDate(PreSession(hh).start)
        /\ events[i].end # Undefined

\* the store holds the session the invocation hh opens
HoldsNew(hh) ==
    \E i \in 1..Len(sessions) :
        /\ sessions[i].user_id = hh.uid /\ sessions[i].type = hh.code
        /\ sessions[i].start = NewDate(hh.timestamp)

\* the sender u was stopped by a restart in the middle of a supersession,
\* after the close and before the open was stored, and no signal has been
\* taken since
CrashedBetween(u) ==
    /\ h.pc = "idle" /\ restarts >= 1
    /\ last[u].pc = "crashed" /\ Superseding(last[u])
    /\ "superseded" \in ReplyKinds(last[u])

\* C26: when break code Y supersedes the open session X, the close of X (its
\* closed event appended, X removed from the session store) is written
\* before Y is written to the store; after a stop of the process between the
\* two, start-up finds no open session of the person; and the store never
\* holds two sessions of the person.
C26_CloseBeforeOpen ==
    /\ (Superseding(h) /\ h.pc = "upsert") =>
            ClosedEventOf(h) /\ ~HasMatch(sessions, h.uid)
    /\ (Superseding(h) /\ HoldsNew(h)) => ClosedEventOf(h)
    /\ \A u \in Users :
            /\ CrashedBetween(u) =>
                    /\ ~HasMatch(sessions, StringOf(u))
                    /\ ~MapHas(activeSessions, StringOf(u))
            /\ Len(DocsOf(sessions, StringOf(u))) < 2

\* a restart has stopped a supersession after its close: the closed event of
\* X is in the log
C26_Witness ==
    \E u \in Users : CrashedBetween(u) /\ ClosedEventOf(last[u])

----------------------------------------------------------------------------
\* The mirror after start-up

\* the process has started again and has taken no signal yet
Restarted == h.pc = "idle" /\ restarts >= 1

\* C27: the mirror is rebuilt from the session store at start-up, before any
\* signal is processed: when the first signal after a restart is taken the
\* mirror holds exactly the open sessions of the store, with the same person,
\* code and start.
C27_MirrorRebuilt ==
    Restarted =>
        /\ DOMAIN activeSessions = {sessions[i].user_id : i \in 1..Len(sessions)}
        /\ \A i \in 1..Len(sessions) :
            LET m == MapGet(activeSessions, sessions[i].user_id)
            IN m.type = sessions[i].type /\ NewDate(m.start) = sessions[i].start

----------------------------------------------------------------------------
\* Reports only read

\* the step is one of a report: of the /report command, or of the daily and
\* monthly report built after a check-out
ReportStep ==
    /\ restarts' = restarts
    /\ \/ h.pc \in {"report", "summary"}
       \/ (h'.code = "report" /\ h.pc \in {"idle", "done"} /\ now' = now)

\* C28: the reporting operations (the /report summary, the daily and the
\* monthly report after a check-out) only read: they leave the event log, the
\* session store and the mirror as they are.
C28_ReportsOnlyRead ==
    [][ReportStep => UNCHANGED <<events, sessions, activeSessions>>]_vars

\* /report has been answered while a break is open: the break is listed and
\* the log, the store and the mirror are those the command started from
C28_Witness ==
    /\ Summarized
    /\ Summary.active # EmptyMap /\ sessions # <<>>
    /\ Snapshot = h.pre

----------------------------------------------------------------------------
\* Order of the instants one signal records

\* the closed event that the invocation hh appended for the session it found
\* open
IntervalsOf(evts, hh) ==
    {i \in 1..Len(evts) :
        /\ evts[i].user_id = hh.from /\ evts[i].code = PreSession(hh).type
        /\ evts[i].end # Undefined
        /\ i > Len(hh.pre.events)}

\* C29: on supersession the intervals of one person do not overlap: the end
\* instant in the closed event of X is not later than the start instant of
\* the session Y that the same signal opens.
C29_NoOverlap ==
    (Superseding(h) /\ h.gen = restarts) =>
        \A i \in IntervalsOf(events, h) :
            \A j \in 1..Len(sessions) :
                (sessions[j].user_id = h.uid /\ sessions[j].type = h.code) =>
                    NewDate(events[i].end).t <= NewDate(sessions[j].start).t

\* the invocation hh is a check-out of a person who had a break open
ForcedCheckOut(hh) ==
    /\ hh.from \in Users /\ hh.chat \in Groups /\ hh.code = "0"
    /\ PreSession(hh) # Undefined
    /\ Clean(hh)

\* the check-out events that the invocation hh appended
CheckOutsOf(evts, hh) ==
    {j \in 1..Len(evts) :
        /\ evts[j].user_id = hh.from /\ evts[j].code = "0"
        /\ j > Len(hh.pre.events)}

\* C30: when a check-out force-closes a session, the timestamp of the
\* check-out event is not earlier than the timestamp (the end instant) of the
\* closed interval event, so a read of the log in timestamp order shows the
\* interval before the check-out.
C30_CloseBeforeCheckOut ==
    (ForcedCheckOut(h) /\ h.gen = restarts) =>
        \A i \in IntervalsOf(events, h) :
            \A j \in CheckOutsOf(events, h) :
                NewDate(events[i].timestamp).t <= NewDate(events[j].timestamp).t

----------------------------------------------------------------------------
\* Start-up over a store a previous run has left

\* the session documents a previous run may have left for person 1
LeftSessions ==
    {<<>>} \cup {<<[user_id |-> StringOf(1), type |-> "wc",
                    start |-> DateOf(t), chat_id |-> "g1"]>> : t \in 0..MaxTime}

\* startup: loadActiveSessions over the store as the previous run left it
StoredInit ==
    /\ sessions \in LeftSessions
    /\ now \in 0..MaxTime
    /\ \A i \in 1..Len(sessions) : sessions[i].start.t <= now
    /\ tz = DefaultZone
    /\ activeSessions = loadActiveSessions(sessions)
    /\ events = <<>>
    /\ h = IdleH
    /\ last = [s \in Senders |-> IdleH]
    /\ signals = 0
    /\ restarts = 0
    /\ loadOk = TRUE

\* one person toggling one break and checking out, with the store failing
\* and the process restarting
StoredNext ==
    \/ \E code \in {"wc", "0"} : HandleAttendance(1, "g1", code)
    \/ CloseSessionLog
    \/ CloseSessionLogFails
    \/ CloseSessionDelete
    \/ CloseSessionDeleteFails
    \/ OpenSession
    \/ UpsertSession
    \/ UpsertSessionFails
    \/ LogEvent
    \/ SendReport
    \/ Tick
    \/ Restart

StoredSpec == StoredInit /\ [][StoredNext]_vars

\* the indices of the closed interval events of person u that start at s
IntervalsFrom(evts, u, s) ==
    {i \in 1..Len(evts) :
        /\ evts[i].user_id = u /\ evts[i].end # Undefined
        /\ evts[i].start = s}

\* C31: an open session is converted into at most one closed event: after
\* any signals, store failures, stops and restarts the log never holds two
\* interval events of one person with the same start instant.
C31_OneCloseEach ==
    \A u \in Users : \A i \in 1..Len(events) :
        Cardinality(IntervalsFrom(events, u, events[i].start)) <= 1

----------------------------------------------------------------------------
\* The daily report and the check-out it follows

\* a check-out of a person in a group has been logged and handled to its end
CheckedOut ==
    /\ Handled /\ h.code = "0" /\ h.from \in Users
    /\ Clean(h) /\ ~h.thrown /\ h.gen = restarts
    /\ CheckOutsOf(events, h) # {}

\* C32: the daily report built right after a check-out is logged includes
\* that check-out, for every configured and machine timezone: the report is
\* not empty and its lastOut is not earlier than the check-out.
C32_ReportHasCheckOut ==
    CheckedOut =>
        /\ Reported
        /\ PersonalReport.report.lastOut # Undefined
        /\ PersonalReport.report.lastOut.t >= NewDate(h.timestamp).t

----------------------------------------------------------------------------
\* A signal touches its sender only

\* person u has the same open session, in the mirror and in the store, before
\* and after the step
SessionKept(u) ==
    /\ MapGet(activeSessions', StringOf(u)) = MapGet(activeSessions, StringOf(u))
    /\ DocsOf(sessions', StringOf(u)) = DocsOf(sessions, StringOf(u))

\* the events the step appends
AppendedByStep == SubSeq(events', Len(events) + 1, Len(events'))

\* C33: a signal from person A leaves every other person's state unchanged:
\* no step of its handling creates, changes or deletes the open session of
\* another person, in the mirror or in the store, and every event it appends
\* carries the id of A.
C33_OthersUntouched ==
    [][restarts' = restarts =>
            /\ \A u \in Users : StringOf(u) # h'.uid => SessionKept(u)
            /\ h'.from \in Users =>
                    \A i \in 1..Len(AppendedByStep) : AppendedByStep[i].user_id = h'.from]_vars

\* a person has opened a break while another person had one open, and the
\* other person's break is still in the mirror and in the store
C33_Witness ==
    /\ Handled /\ Clean(h) /\ h.from \in Users /\ h.code \in breakCodes
    /\ HoldsNew(h)
    /\ \E u \in Users :
            /\ u # h.from
            /\ MapHas(h.pre.activeSessions, StringOf(u))
            /\ MapGet(activeSessions, StringOf(u)) = MapGet(h.pre.activeSessions, StringOf(u))
            /\ DocsOf(sessions, StringOf(u)) = DocsOf(h.pre.sessions, StringOf(u))
            /\ HasMatch(sessions, StringOf(u))

----------------------------------------------------------------------------
\* Events of interval codes

\* every event of an interval code is a closed interval: it has an end, its
\* timestamp is the end and its duration is end minus start
IntervalsClosed(evts) ==
    \A i \in 1..Len(evts) :
        evts[i].code \in breakCodes =>
            /\ evts[i].end # Undefined /\ evts[i].start # Undefined
            /\ evts[i].timestamp = evts[i].end
            /\ evts[i].duration_ms = Num(evts[i].end.t - evts[i].start.t)

\* the invocation hh is a break code of a person with no break open
Opening(hh) ==
    /\ hh.chat \in Groups /\ hh.code \in breakCodes
    /\ hh.uid # Undefined /\ PreSession(hh) = Undefined

\* the invocation hh has completed a break: closeSession has ended the
\* session it found in the mirror
Completed(hh) == hh.chat \in Groups /\ hh.closed # Undefined

\* C34: opening a break appends no event; every event of an interval code
\* (wc, mb, f) is a closed interval whose timestamp is its end and whose
\* duration is end minus start; so the events of an interval code are as many
\* as the completed breaks (each completed break is one event) and an
\* interval falls into a reporting window by its end.
C34_IntervalEvents ==
    /\ IntervalsClosed(events)
    /\ (Opening(h) /\ h.gen = restarts) => Appended(h) = <<>>
    /\ (Completed(h) /\ h.gen = restarts) => Cardinality(IntervalsOf(events, h)) = 1
    /\ Summarized =>
            \A key \in Keys : \A c \in breakCodes :
                \A e \in {EntriesOf(Summary.week, key)[n] : n \in 1..Len(EntriesOf(Summary.week, key))} :
                    e.counts[c] =
                        Cardinality({i \in 1..Len(h.fetched) :
                                        /\ userKeyOf(h.fetched[i]) = key
                                        /\ h.fetched[i].code = c
                                        /\ NewDate(h.fetched[i].end).t >= h.sinceWeek.t})

----------------------------------------------------------------------------
\* The two windows of /report

\* the entry of key in the summary sm, as a set (empty when key has none)
EntrySet(sm, key) == {EntriesOf(sm, key)[n] : n \in 1..Len(EntriesOf(sm, key))}

\* no fetched event has a negative duration
NonNegative(evts) ==
    \A i \in 1..Len(evts) : isFinite(evts[i].duration_ms) => evts[i].duration_ms.t >= 0

\* C35: in the /report output the Today window lies within the This week
\* window: startOfWeek is not later than startOfToday, every event counted
\* under Today is counted under This week, and for every person and code the
\* Today count and (for non-negative durations) duration do not exceed those
\* of This week.
C35_TodayWithinWeek ==
    Summarized =>
        /\ h.sinceWeek.t <= Summary.sinceToday.t
        /\ \A i \in 1..Len(h.fetched) :
                NewDate(h.fetched[i].timestamp).t >= Summary.sinceToday.t
                    => NewDate(h.fetched[i].timestamp).t >= h.sinceWeek.t
        /\ Summary.today.total <= Summary.week.total
        /\ \A key \in Keys : \A t \in EntrySet(Summary.today, key) :
                /\ EntrySet(Summary.week, key) # {}
                /\ \A w \in EntrySet(Summary.week, key) :
                        /\ \A c \in attendanceCodes : t.counts[c] <= w.counts[c]
                        /\ NonNegative(h.fetched) =>
                                \A c \in breakCodes : t.durations[c] <= w.durations[c]

\* a /report whose week holds an event of a day before today and whose today
\* holds a later event of the same person
C35_Witness ==
    /\ Summarized
    /\ 0 < Summary.today.total /\ Summary.today.total < Summary.week.total
    /\ \E key \in Keys : \E t \in EntrySet(Summary.today, key) :
            \E w \in EntrySet(Summary.week, key) :
                /\ t.counts["0"] = 1 /\ w.counts["0"] = 1
                /\ t.counts["1"] = 0 /\ w.counts["1"] = 1

====
